---- MODULE Spec2Model ----
(***************************************************************************)
(* Model of src/tony/autopilot.py: the three condition waiters and main,   *)
(* the sequencer that plays the 9-step script against a NeuroAPI channel.  *)
(*                                                                         *)
(* main is one asyncio task.  An action of main is one scheduler step:     *)
(* everything the task runs from the moment it is resumed up to its next   *)
(* `await asyncio.sleep(...)`.  Time is counted in ticks of 100 ms, the    *)
(* poll interval of the waiters.  The channel (NeuroAPI) is an external    *)
(* library: its signals change and its result notifications arrive in      *)
(* separate scheduler steps, or synchronously inside send_action.          *)
(***************************************************************************)
EXTENDS Naturals, Sequences, FiniteSets

VARIABLES
    pc,         \* where main is suspended: the sleep it is in
    k,          \* number of the script step last sent (0: none yet)
    dur,        \* duration of the sleep main is in, in ticks
    slept,      \* ticks of that sleep that have elapsed (at most dur)
    prev,       \* wait_for_action_result: local `prev`
    triggered,  \* wait_for_action_result: local `triggered`
    slot,       \* api.on_action_result
    ready,      \* api.current_game, as a truth value
    forced,     \* api.action_forced, as a truth value
    ops,        \* history: main's calls and returns, in order
    reads,      \* history: what main last read of each signal, and when
    hits,       \* history: invocations of the current trigger (saturating)
    trigBy,     \* history: command whose notification first hit the current trigger
    lastTarget, \* history: handler the most recent notification was handed to
    slot0,      \* history: the handler in the slot before the run
    wasTrue,    \* history: the polled signal has been true since the last poll
    mode,       \* scenario channel: how it delivers results
    polls,      \* scenario channel: ticks counted so far (saturating)
    pending,    \* scenario channel: a result it still has to deliver
    waiters     \* wait_for_action_result calls made as tasks of their own

vars == <<pc, k, dur, slept, prev, triggered, slot, ready, forced, ops, reads,
          hits, trigBy, lastTarget, slot0, wasTrue, mode, polls, pending, waiters>>

(* What the steps of main leave alone.                                     *)
chanVars == <<ready, forced, mode, polls, pending, waiters>>

----------------------------------------------------------------------------
(* Program constants, in ticks of 100 ms.                                  *)

PollInterval == 1

SettleTime == 10

NSteps == 9

Delay == <<30, 20, 20, 50, 20, 50, 20, 50, 20>>

(* The ids as they would be with step 8 pasted from step 6 unchanged.      *)
Id_Pasted ==
    <<"id_1", "id_2", "id_3", "id_4", "id_5", "id_6", "id_7", "id_6", "id_9">>

(* The ids of the script's commands, in script order.                      *)
Id == <<"id_1", "id_2", "id_3", "id_4", "id_5", "id_6", "id_7", "id_8", "id_9">>

(* Bound of the model: the invocation counter saturates here.              *)
MaxHits == 3

----------------------------------------------------------------------------
(* Handlers that can be in the on_action_result slot.                      *)

NoHandler == [kind |-> "none", call |-> 0]

OrigHandler == [kind |-> "orig", call |-> 0]

Trigger(n) == [kind |-> "trigger", call |-> n]

NeverDelivered == [kind |-> "never", call |-> 0]

Op(name, id) == <<name, id>>

Sleep(label, d) ==
    /\ pc' = label
    /\ dur' = d
    /\ slept' = 0

Min(a, b) == IF a < b THEN a ELSE b

(* Two calls of wait_for_action_result other than main's, by call number.  *)
Waiters == {1, 2}

----------------------------------------------------------------------------
InitMain ==
    /\ pc = "start"
    /\ k = 0
    /\ dur = 0
    /\ slept = 0
    /\ prev = NoHandler
    /\ triggered = FALSE
    /\ slot \in {NoHandler, OrigHandler}
    /\ slot0 = slot
    /\ ready = FALSE
    /\ forced = FALSE
    /\ wasTrue = FALSE
    /\ ops = <<>>
    /\ reads = [game |-> "unread", forced |-> "unread", at |-> 0, missed |-> FALSE]
    /\ hits = 0
    /\ trigBy = ""
    /\ lastTarget = NeverDelivered
    /\ polls = 0
    /\ pending = FALSE
    /\ waiters = [w \in Waiters |->
                     [pc |-> "idle", prev |-> NoHandler, triggered |-> FALSE,
                      hits |-> 0, unseen |-> 0]]

Init ==
    /\ InitMain
    /\ mode = "any"

----------------------------------------------------------------------------
(* wait_for_actions_force as it would be without its loop: it reads the    *)
(* signal once and returns.                                                *)
PollForce_NoLoop(o, g, w) ==
    /\ reads' = [game |-> g, forced |-> IF forced THEN "true" ELSE "false",
                 at |-> Len(o), missed |-> FALSE]
    /\ wasTrue' = FALSE
    /\ ops' = Append(o, Op("force_ret", ""))
    /\ Sleep("settle", SettleTime)

(* wait_for_actions_force: one evaluation of `while not api.action_forced`,*)
(* with o the history so far and g what wait_for_startup last read.        *)
PollForce(o, g, w) ==
    /\ reads' = [game |-> g, forced |-> IF forced THEN "true" ELSE "false",
                 at |-> Len(o), missed |-> ~forced /\ w]
    /\ wasTrue' = FALSE
    /\ IF forced
       THEN /\ ops' = Append(o, Op("force_ret", ""))
            /\ Sleep("settle", SettleTime)
       ELSE /\ ops' = o
            /\ Sleep("force", PollInterval)

(* wait_for_startup as it would be with its test inverted.                 *)
PollStartup_Inverted(o) ==
    IF ~ready
    THEN PollForce(Append(Append(o, Op("startup_ret", "")), Op("force_call", "")),
                   "false", FALSE)
    ELSE /\ reads' = [reads EXCEPT !.game = "true", !.at = Len(o),
                                   !.missed = FALSE]
         /\ wasTrue' = FALSE
         /\ ops' = o
         /\ Sleep("startup", PollInterval)

(* wait_for_startup: one evaluation of `while not api.current_game`; when  *)
(* it is true main goes on into wait_for_actions_force without suspending. *)
PollStartup(o) ==
    IF ready
    THEN PollForce(Append(Append(o, Op("startup_ret", "")), Op("force_call", "")),
                   "true", FALSE)
    ELSE /\ reads' = [reads EXCEPT !.game = "false", !.at = Len(o),
                                   !.missed = wasTrue]
         /\ wasTrue' = FALSE
         /\ ops' = o
         /\ Sleep("startup", PollInterval)

(* main, lines 25-29: create the api, start it, enter wait_for_startup.    *)
Start ==
    /\ pc = "start"
    /\ PollStartup(Append(Append(ops, Op("start", "")), Op("startup_call", "")))
    /\ UNCHANGED <<k, prev, triggered, slot, hits, trigBy, lastTarget, slot0>>

(* wait_for_startup as it would be if it cleared the handler slot each     *)
(* time it resumed.                                                        *)
StartupResume_ClearsSlot ==
    /\ pc = "startup"
    /\ slept >= dur
    /\ PollStartup(ops)
    /\ slot' = NoHandler
    /\ UNCHANGED <<k, prev, triggered, hits, trigBy, lastTarget, slot0>>

(* wait_for_startup resumed from its sleep.                                *)
StartupResume ==
    /\ pc = "startup"
    /\ slept >= dur
    /\ PollStartup(ops)
    /\ UNCHANGED <<k, prev, triggered, slot, hits, trigBy, lastTarget, slot0>>

(* wait_for_actions_force resumed from its sleep.                          *)
ForceResume ==
    /\ pc = "force"
    /\ slept >= dur
    /\ PollForce(ops, reads.game, wasTrue)
    /\ UNCHANGED <<k, prev, triggered, slot, hits, trigBy, lastTarget, slot0>>

(* The send step as it would be with `triggered` kept across calls (a      *)
(* module-level flag instead of a local one).                              *)
SendStep_KeepFlag(sync) ==
    /\ pc \in {"settle", "delay"}
    /\ slept >= dur
    /\ k < NSteps
    /\ k' = k + 1
    /\ ops' = Append(Append(ops, Op("send", Id[k + 1])),
                     Op("result_call", Id[k + 1]))
    /\ lastTarget' = IF sync THEN slot ELSE lastTarget
    /\ prev' = slot
    /\ slot' = Trigger(k + 1)
    /\ hits' = 0
    /\ Sleep("wait", PollInterval)
    /\ UNCHANGED <<triggered, reads, trigBy, slot0, wasTrue>>

(* The send step as it would be with a suspension point between            *)
(* send_action and wait_for_action_result.                                 *)
SendStep_Yield(sync) ==
    /\ pc \in {"settle", "delay"}
    /\ slept >= dur
    /\ k < NSteps
    /\ k' = k + 1
    /\ ops' = Append(ops, Op("send", Id[k + 1]))
    /\ lastTarget' = IF sync THEN slot ELSE lastTarget
    /\ Sleep("sent", 0)
    /\ UNCHANGED <<prev, triggered, slot, hits, reads, trigBy, slot0, wasTrue>>

(* main resumed from the sleep before a script step: send_action(id_n),    *)
(* then wait_for_action_result up to its first sleep.  With sync the       *)
(* channel invokes the slot's handler inside send_action.                  *)
SendStep(sync) ==
    /\ pc \in {"settle", "delay"}
    /\ slept >= dur
    /\ k < NSteps
    /\ k' = k + 1
    /\ ops' = Append(Append(ops, Op("send", Id[k + 1])),
                     Op("result_call", Id[k + 1]))
    /\ lastTarget' = IF sync THEN slot ELSE lastTarget
    /\ prev' = slot
    /\ triggered' = FALSE
    /\ slot' = Trigger(k + 1)
    /\ hits' = 0
    /\ Sleep("wait", PollInterval)
    /\ UNCHANGED <<reads, trigBy, slot0, wasTrue>>

(* wait_for_action_result as it would be with line 18 missing.             *)
WaitResume_NoRestore ==
    /\ pc = "wait"
    /\ slept >= dur
    /\ IF triggered
       THEN /\ ops' = Append(ops, Op("result_ret", Id[k]))
            /\ Sleep("delay", Delay[k])
       ELSE /\ Sleep("wait", PollInterval)
            /\ UNCHANGED ops
    /\ UNCHANGED <<k, prev, triggered, slot, reads, hits, trigBy, lastTarget,
                   slot0, wasTrue>>

(* wait_for_action_result as it would be with line 18 clearing the slot    *)
(* instead of restoring prev.                                              *)
WaitResume_ClearsSlot ==
    /\ pc = "wait"
    /\ slept >= dur
    /\ IF triggered
       THEN /\ slot' = NoHandler
            /\ ops' = Append(ops, Op("result_ret", Id[k]))
            /\ Sleep("delay", Delay[k])
       ELSE /\ Sleep("wait", PollInterval)
            /\ UNCHANGED <<slot, ops>>
    /\ UNCHANGED <<k, prev, triggered, reads, hits, trigBy, lastTarget, slot0,
                   wasTrue>>

(* wait_for_action_result as it would be with the loop test dropped: it    *)
(* restores and returns at its first resume, triggered or not.             *)
WaitResume_Unchecked ==
    /\ pc = "wait"
    /\ slept >= dur
    /\ slot' = prev
    /\ ops' = Append(ops, Op("result_ret", Id[k]))
    /\ Sleep("delay", Delay[k])
    /\ UNCHANGED <<k, prev, triggered, reads, hits, trigBy, lastTarget, slot0,
                   wasTrue>>

(* wait_for_action_result resumed from its sleep.                          *)
WaitResume ==
    /\ pc = "wait"
    /\ slept >= dur
    /\ IF triggered
       THEN /\ slot' = prev
            /\ ops' = Append(ops, Op("result_ret", Id[k]))
            /\ Sleep("delay", Delay[k])
       ELSE /\ Sleep("wait", PollInterval)
            /\ UNCHANGED <<slot, ops>>
    /\ UNCHANGED <<k, prev, triggered, reads, hits, trigBy, lastTarget, slot0,
                   wasTrue>>

(* main as it would be with api.stop() reached after any step's delay.     *)
Stop_Early ==
    /\ pc = "delay"
    /\ slept >= dur
    /\ ops' = Append(ops, Op("stop", ""))
    /\ pc' = "done"
    /\ dur' = 0
    /\ slept' = 0
    /\ UNCHANGED <<k, prev, triggered, slot, reads, hits, trigBy, lastTarget, slot0,
                   wasTrue>>

(* main resumed from the sleep after the last step: api.stop().            *)
Stop ==
    /\ pc = "delay"
    /\ slept >= dur
    /\ k = NSteps
    /\ ops' = Append(ops, Op("stop", ""))
    /\ pc' = "done"
    /\ dur' = 0
    /\ slept' = 0
    /\ UNCHANGED <<k, prev, triggered, slot, reads, hits, trigBy, lastTarget, slot0,
                   wasTrue>>

(* 100 ms pass while main sleeps.                                          *)
Tick ==
    /\ pc \notin {"start", "done"}
    /\ slept < dur
    /\ slept' = slept + 1
    /\ UNCHANGED <<pc, k, dur, prev, triggered, slot, ops, reads, hits, trigBy,
                   lastTarget, slot0>>

(* trigger as it would be without `nonlocal triggered`: the assignment     *)
(* makes a local of trigger and the waiter's flag stays false.             *)
Invoke_NoNonlocal(id) ==
    /\ lastTarget' = slot
    /\ IF slot = Trigger(k)
       THEN /\ hits' = Min(hits + 1, MaxHits)
            /\ trigBy' = IF hits = 0 THEN id ELSE trigBy
            /\ UNCHANGED triggered
       ELSE UNCHANGED <<triggered, hits, trigBy>>
    /\ UNCHANGED <<pc, k, dur, slept, prev, slot, ops, reads, slot0, wasTrue>>

(* trigger as it would be if it looked at its argument and counted only a  *)
(* result of the command just sent.                                        *)
Invoke_Correlated(id) ==
    /\ lastTarget' = slot
    /\ IF slot = Trigger(k) /\ id = Id[k]
       THEN /\ triggered' = TRUE
            /\ hits' = Min(hits + 1, MaxHits)
            /\ trigBy' = IF hits = 0 THEN id ELSE trigBy
       ELSE UNCHANGED <<triggered, hits, trigBy>>
    /\ UNCHANGED <<pc, k, dur, slept, prev, slot, ops, reads, slot0, wasTrue>>

(* trigger as it would be if it passed the result on to the handler it     *)
(* replaced after setting the flag.                                        *)
Invoke_Forwards(id) ==
    /\ lastTarget' = IF slot = Trigger(k) THEN prev ELSE slot
    /\ IF slot = Trigger(k)
       THEN /\ triggered' = TRUE
            /\ hits' = Min(hits + 1, MaxHits)
            /\ trigBy' = IF hits = 0 THEN id ELSE trigBy
       ELSE UNCHANGED <<triggered, hits, trigBy>>
    /\ UNCHANGED <<pc, k, dur, slept, prev, slot, ops, reads, slot0, wasTrue>>

(* The channel hands the result of command id to the handler in the slot,  *)
(* in a scheduler step of its own.  trigger (lines 12-14) sets the flag of *)
(* the call that made it.                                                  *)
Invoke(id) ==
    /\ lastTarget' = slot
    /\ IF slot = Trigger(k)
       THEN /\ triggered' = TRUE
            /\ hits' = Min(hits + 1, MaxHits)
            /\ trigBy' = IF hits = 0 THEN id ELSE trigBy
       ELSE UNCHANGED <<triggered, hits, trigBy>>
    /\ UNCHANGED <<pc, k, dur, slept, prev, slot, ops, reads, slot0, wasTrue>>

Running == pc \notin {"start", "done", "crashed"}

----------------------------------------------------------------------------
(* The channel of the general specification: the signals change at any     *)
(* time, a result of any command already sent may be delivered at any      *)
(* scheduler step, any number of times, and send_action may or may not     *)
(* invoke the handler synchronously.                                       *)

MainStart == Start /\ UNCHANGED chanVars

MainStartup == StartupResume /\ UNCHANGED chanVars

MainForce == ForceResume /\ UNCHANGED chanVars

MainSend == (\E sync \in BOOLEAN : SendStep(sync)) /\ UNCHANGED chanVars

MainWait == WaitResume /\ UNCHANGED chanVars

MainStop == Stop /\ UNCHANGED chanVars

TimePasses == Tick /\ UNCHANGED <<chanVars, wasTrue>>

Notify ==
    /\ Running
    /\ \E j \in 1..k : Invoke(Id[j])
    /\ UNCHANGED chanVars

SetGame ==
    /\ Running
    /\ ready' = ~ready
    /\ wasTrue' = (wasTrue \/ (pc = "startup" /\ ready'))
    /\ UNCHANGED <<pc, k, dur, slept, prev, triggered, slot, forced, ops, reads,
                   hits, trigBy, lastTarget, slot0, mode, polls, pending, waiters>>

SetForced ==
    /\ Running
    /\ forced' = ~forced
    /\ wasTrue' = (wasTrue \/ (pc = "force" /\ forced'))
    /\ UNCHANGED <<pc, k, dur, slept, prev, triggered, slot, ready, ops, reads,
                   hits, trigBy, lastTarget, slot0, mode, polls, pending, waiters>>

Next ==
    \/ MainStart
    \/ MainStartup
    \/ MainForce
    \/ MainSend
    \/ MainWait
    \/ MainStop
    \/ TimePasses
    \/ Notify
    \/ SetGame
    \/ SetForced

Spec == Init /\ [][Next]_vars

----------------------------------------------------------------------------
(* The channel of the end-to-end scenario: ready after ReadyAfter ticks,   *)
(* forced after ForcedAfter more, and one result per send_action, handed   *)
(* to the slot's handler either synchronously inside send_action (mode     *)
(* "sync") or in a later scheduler step (mode "sched").                    *)

ReadyAfter == 2

ForcedAfter == 3

ScnInit ==
    /\ InitMain
    /\ mode \in {"sync", "sched"}

ScnStart == Start /\ UNCHANGED chanVars

ScnStartup == StartupResume /\ UNCHANGED chanVars

ScnForce == ForceResume /\ UNCHANGED chanVars

ScnSend ==
    /\ SendStep(mode = "sync")
    /\ pending' = (mode = "sched")
    /\ UNCHANGED <<ready, forced, mode, polls, waiters>>

ScnWait == WaitResume /\ UNCHANGED chanVars

ScnStop == Stop /\ UNCHANGED chanVars

ScnTick ==
    /\ Tick
    /\ polls' = Min(polls + 1, ReadyAfter + ForcedAfter)
    /\ ready' = (polls' >= ReadyAfter)
    /\ forced' = (polls' >= ReadyAfter + ForcedAfter)
    /\ wasTrue' = (wasTrue \/ (pc = "startup" /\ ready') \/ (pc = "force" /\ forced'))
    /\ UNCHANGED <<mode, pending, waiters>>

ScnDeliver ==
    /\ pending
    /\ Invoke(Id[k])
    /\ pending' = FALSE
    /\ UNCHANGED <<ready, forced, mode, polls, waiters>>

ScnMain == ScnStart \/ ScnStartup \/ ScnForce \/ ScnSend \/ ScnWait \/ ScnStop

ScnNext ==
    \/ ScnStart
    \/ ScnStartup
    \/ ScnForce
    \/ ScnSend
    \/ ScnWait
    \/ ScnStop
    \/ ScnTick
    \/ ScnDeliver

(* The event loop runs a task whose sleep is over, lets time pass, and     *)
(* runs a callback the channel has scheduled.                              *)
SpecScenario ==
    /\ ScnInit
    /\ [][ScnNext]_vars
    /\ WF_vars(ScnMain)
    /\ WF_vars(ScnTick)
    /\ WF_vars(ScnDeliver)

----------------------------------------------------------------------------
(* The general channel under a fair scheduler: the event loop runs main    *)
(* when its sleep is over, time passes, and while a wait has not been      *)
(* notified the channel eventually delivers a result to the slot.          *)

MainStep ==
    MainStart \/ MainStartup \/ MainForce \/ MainSend \/ MainWait \/ MainStop

Deliver ==
    /\ pc = "wait"
    /\ ~triggered
    /\ Notify

SpecLive ==
    /\ Init
    /\ [][Next]_vars
    /\ WF_vars(MainStep)
    /\ WF_vars(TimePasses)
    /\ WF_vars(Deliver)

----------------------------------------------------------------------------
(* Transport failures: api.start or api.send_action raises.  main has no   *)
(* try/except, so the exception leaves main and asyncio.run: the run ends. *)

Crash ==
    /\ pc' = "crashed"
    /\ dur' = 0
    /\ slept' = 0

(* main, line 27: api.start raises.                                        *)
StartRaises ==
    /\ pc = "start"
    /\ ops' = Append(ops, Op("start_raised", ""))
    /\ Crash
    /\ UNCHANGED <<k, prev, triggered, slot, reads, hits, trigBy, lastTarget, slot0,
                   wasTrue>>

(* A send step as it would be with send_action wrapped in a try/except     *)
(* that swallows the exception: main goes on into wait_for_action_result.  *)
SendRaises_Caught ==
    /\ pc \in {"settle", "delay"}
    /\ slept >= dur
    /\ k < NSteps
    /\ k' = k + 1
    /\ ops' = Append(Append(ops, Op("send_raised", Id[k + 1])),
                     Op("result_call", Id[k + 1]))
    /\ prev' = slot
    /\ triggered' = FALSE
    /\ slot' = Trigger(k + 1)
    /\ hits' = 0
    /\ Sleep("wait", PollInterval)
    /\ UNCHANGED <<reads, trigBy, lastTarget, slot0, wasTrue>>

(* main resumed from the sleep before a script step, and send_action of    *)
(* that step raises (lines 34, 38, ..., 74).                               *)
SendRaises ==
    /\ pc \in {"settle", "delay"}
    /\ slept >= dur
    /\ k < NSteps
    /\ ops' = Append(ops, Op("send_raised", Id[k + 1]))
    /\ Crash
    /\ UNCHANGED <<k, prev, triggered, slot, reads, hits, trigBy, lastTarget, slot0,
                   wasTrue>>

MainStartRaises == StartRaises /\ UNCHANGED chanVars

MainSendRaises == SendRaises /\ UNCHANGED chanVars

NextFail ==
    \/ Next
    \/ MainStartRaises
    \/ MainSendRaises

SpecFail == Init /\ [][NextFail]_vars

----------------------------------------------------------------------------
(* wait_for_action_result called from two tasks on one channel, outside    *)
(* main: each call is lines 10-16 up to its first sleep, then the loop.    *)

mainVars == <<pc, k, dur, slept, prev, triggered, ops, reads, hits, trigBy,
              wasTrue, ready, forced, mode, polls, pending>>

(* Lines 10-16: save the slot, make the flag and the trigger, install it.  *)
OvEnter(w) ==
    /\ waiters[w].pc = "idle"
    /\ waiters' = [waiters EXCEPT ![w] =
                      [pc |-> "polling", prev |-> slot, triggered |-> FALSE,
                       hits |-> 0, unseen |-> 0]]
    /\ slot' = Trigger(w)
    /\ UNCHANGED <<lastTarget, slot0, mainVars>>

(* The call as it would be if it restored only when the slot still holds   *)
(* its own trigger.                                                        *)
OvResume_OwnOnly(w) ==
    /\ waiters[w].pc = "polling"
    /\ IF waiters[w].triggered
       THEN /\ slot' = IF slot = Trigger(w) THEN waiters[w].prev ELSE slot
            /\ waiters' = [waiters EXCEPT ![w].pc = "returned"]
       ELSE UNCHANGED <<slot, waiters>>
    /\ UNCHANGED <<lastTarget, slot0, mainVars>>

(* Lines 16-18: the call resumed from its sleep.                           *)
OvResume(w) ==
    /\ waiters[w].pc = "polling"
    /\ IF waiters[w].triggered
       THEN /\ slot' = waiters[w].prev
            /\ waiters' = [waiters EXCEPT ![w].pc = "returned"]
       ELSE UNCHANGED <<slot, waiters>>
    /\ UNCHANGED <<lastTarget, slot0, mainVars>>

(* The channel hands a result to the handler in the slot: a trigger sets   *)
(* the flag of its call (lines 12-14); a polling call whose trigger is not *)
(* in the slot does not see it.                                            *)
OvNotify ==
    /\ lastTarget' = slot
    /\ waiters' = [w \in Waiters |->
                      IF slot = Trigger(w)
                      THEN [waiters[w] EXCEPT !.triggered = TRUE,
                                              !.hits = Min(@ + 1, MaxHits)]
                      ELSE IF waiters[w].pc = "polling"
                      THEN [waiters[w] EXCEPT !.unseen = Min(@ + 1, MaxHits)]
                      ELSE waiters[w]]
    /\ UNCHANGED <<slot, slot0, mainVars>>

OvCall == \E w \in Waiters : OvEnter(w)

OvPoll == \E w \in Waiters : OvResume(w)

OvInit ==
    /\ InitMain
    /\ mode = "overlap"

OvNext ==
    \/ OvCall
    \/ OvPoll
    \/ OvNotify

SpecOverlap == OvInit /\ [][OvNext]_vars

----------------------------------------------------------------------------
(* Reading the history.                                                    *)

Last(s) == s[Len(s)]

IsPrefix(s, t) ==
    /\ Len(s) <= Len(t)
    /\ \A i \in 1..Len(s) : s[i] = t[i]

(* Where main has made the call or return `name`.                          *)
Places(name) == {i \in 1..Len(ops) : ops[i][1] = name}

CountOp(name) == Cardinality(Places(name))

IsSend(e) == e[1] = "send"

(* The ids of the send_action calls the channel has seen, in order.        *)
SentIds ==
    LET sends == SelectSeq(ops, IsSend)
    IN  [i \in 1..Len(sends) |-> sends[i][2]]

(* This step of main makes the call or return `name`.                      *)
Appended(name) ==
    /\ Len(ops') > Len(ops)
    /\ \E i \in (Len(ops) + 1)..Len(ops') : ops'[i][1] = name

(* Nine ids, as the script of main spells them.                            *)
ScriptIds ==
    <<"id_1", "id_2", "id_3", "id_4", "id_5", "id_6", "id_7", "id_8", "id_9">>

RECURSIVE StepsUpTo(_)
StepsUpTo(n) ==
    IF n = 0
    THEN <<>>
    ELSE StepsUpTo(n - 1) \o <<Op("send", ScriptIds[n]),
                                Op("result_call", ScriptIds[n]),
                                Op("result_ret", ScriptIds[n])>>

Prologue ==
    <<Op("start", ""), Op("startup_call", ""), Op("startup_ret", ""),
      Op("force_call", ""), Op("force_ret", "")>>

FullRun == Prologue \o StepsUpTo(9) \o <<Op("stop", "")>>

----------------------------------------------------------------------------
(* C1 (as amended): whatever the channel does, send_action of a command    *)
(* after the first is issued only when the handler installed by the wait   *)
(* that follows the previous send has been invoked at least once, by a     *)
(* notification of whichever command, that wait has returned, and the      *)
(* fixed delay of the previous step has elapsed.                           *)
C1_OrderedSends ==
    [][(Appended("send") /\ k >= 1) =>
           /\ hits >= 1
           /\ Last(ops) = Op("result_ret", ScriptIds[k])
           /\ pc = "delay"
           /\ slept >= Delay[k]]_vars

(* C1 as stated: the wait that follows send id_k has observed the result   *)
(* of command id_k itself before id_(k+1) is sent.                         *)
C1_Original ==
    [][(Appended("send") /\ k >= 1) =>
           /\ trigBy = ScriptIds[k]
           /\ slept >= Delay[k]]_vars

(* id_3 has been sent after the wait for id_2 was ended by a second        *)
(* notification of id_1.                                                   *)
C1_Witness ==
    /\ k = 3
    /\ pc = "wait"
    /\ hits = 0
    /\ trigBy = "id_1"

----------------------------------------------------------------------------
Done == pc = "done" /\ ops = FullRun

(* C2 (as amended): in the end-to-end scenario a channel that invokes the  *)
(* slot's handler synchronously inside send_action hands the result to the *)
(* handler that was there before the waiter installs its own, so main      *)
(* sends id_1 only and stays in the first wait for ever, without stop();   *)
(* a channel that invokes the slot's handler in a scheduler step after     *)
(* each send_action gets the 9 sends in order and then one stop().         *)
C2_Scenario ==
    /\ (mode = "sched") => <>Done
    /\ [](mode = "sync" => (IsPrefix(SentIds, <<"id_1">>) /\ CountOp("stop") = 0))
    /\ (mode = "sync") =>
           <>[](pc = "wait" /\ k = 1 /\ ~triggered /\ lastTarget = slot0)

(* C2 as stated: with the synchronous channel main eventually makes the 9  *)
(* sends in order and then one stop().                                     *)
C2_Original == (mode = "sync") => <>Done

(* The synchronous channel has handed the result of id_1 to the handler    *)
(* that was in the slot before the run, and main polls its own flag.       *)
C2_Witness ==
    /\ mode = "sync"
    /\ polls = ReadyAfter + ForcedAfter
    /\ pc = "wait"
    /\ k = 1
    /\ lastTarget = slot0
    /\ slot = Trigger(1)
    /\ ~triggered
    /\ slept = dur

----------------------------------------------------------------------------
(* C3: the send_action calls the channel has seen are id_1, id_2, ... in   *)
(* script order with none repeated or skipped; once stop() is called they  *)
(* are exactly the 9; and each send_action is followed at once by one      *)
(* wait_for_action_result call, the only one before the next send or stop. *)
C3_SendsInOrder ==
    /\ IsPrefix(SentIds, ScriptIds)
    /\ CountOp("stop") > 0 => SentIds = ScriptIds
    /\ CountOp("result_call") = CountOp("send")
    /\ \A i \in Places("send") :
           /\ i < Len(ops)
           /\ ops[i + 1] = Op("result_call", ops[i][2])
    /\ \A i \in Places("result_call") : ops[i - 1] = Op("send", ops[i][2])

(* The run has reached stop() after the 9 sends.                           *)
C3_Witness ==
    /\ pc = "done"
    /\ SentIds = ScriptIds
    /\ CountOp("result_call") = 9

(* C4: start(), wait_for_startup and wait_for_actions_force are each       *)
(* called at most once; once a command has been sent, start() was called,  *)
(* then wait_for_startup returned on reading current_game true, then       *)
(* wait_for_actions_force returned on reading action_forced true, in that  *)
(* order, and the last read of either signal is the one that ended         *)
(* wait_for_actions_force: no send re-reads them.                          *)
C4_WaitsBeforeSends ==
    /\ CountOp("start") <= 1
    /\ CountOp("startup_call") <= 1
    /\ CountOp("force_call") <= 1
    /\ CountOp("send") > 0 =>
           /\ IsPrefix(Prologue, ops)
           /\ CountOp("startup_ret") = 1
           /\ CountOp("force_ret") = 1
           /\ reads.game = "true"
           /\ reads.forced = "true"
           /\ reads.at = 4

(* id_2 has just been sent while both signals are false again.             *)
C4_Witness ==
    /\ k = 2
    /\ pc = "wait"
    /\ slept = 0
    /\ hits = 0
    /\ ~ready
    /\ ~forced

(* C5: a wait_for_action_result call saves the slot's handler on entry and *)
(* installs its trigger; while it has not returned the slot holds that     *)
(* trigger and the saved handler is kept; the step in which it returns     *)
(* writes the saved handler back and goes on to the fixed delay; nothing   *)
(* else writes the slot, so on return the slot holds what it held on       *)
(* entry, None included.                                                   *)
C5_RestoreOnReturn ==
    /\ [](pc = "wait" => (slot = Trigger(k) /\ prev = slot0))
    /\ [][Appended("result_call") => (prev' = slot /\ slot' = Trigger(k'))]_vars
    /\ [][pc = "wait" => prev' = prev]_vars
    /\ [][Appended("result_ret") =>
              /\ slot = Trigger(k)
              /\ slot' = prev
              /\ slot' = slot0
              /\ pc' = "delay"]_vars
    /\ [][slot' # slot => (Appended("result_call") \/ Appended("result_ret"))]_vars

(* The first wait has just returned and has put None back.                 *)
C5_Witness ==
    /\ slot0 = NoHandler
    /\ pc = "delay"
    /\ k = 1
    /\ slept = 0
    /\ slot = NoHandler
    /\ Last(ops) = Op("result_ret", "id_1")

(* C6: a wait_for_action_result call starts with its flag false and no     *)
(* invocation counted, its flag is set exactly when its own handler has    *)
(* been invoked, it returns only then, and it returns at most once however *)
(* many times the handler was invoked.                                     *)
C6_NoCarryOver ==
    /\ [](pc = "wait" => (triggered <=> hits >= 1))
    /\ [][Appended("result_call") => (~triggered' /\ hits' = 0)]_vars
    /\ [][Appended("result_ret") => hits >= 1]_vars
    /\ [](\A n \in 1..9 :
             Cardinality({i \in Places("result_ret") : ops[i][2] = ScriptIds[n]}) <= 1)

(* The first wait has returned, once, after its handler had been invoked   *)
(* at least twice.                                                         *)
C6_Witness ==
    /\ pc = "delay"
    /\ k = 1
    /\ hits >= 2
    /\ CountOp("result_ret") = 1

C8_PollObserved ==
    /\ [][Appended("startup_ret") => ready]_vars
    /\ [][Appended("force_ret") => forced]_vars
    /\ [](CountOp("startup_ret") > 0 => reads.game = "true")
    /\ [](CountOp("force_ret") > 0 => reads.forced = "true")
    /\ [](reads.missed => pc \in {"startup", "force"})
    /\ [](pc \in {"start", "startup", "force", "settle", "wait", "delay", "done"})

(* current_game was true between two polls of wait_for_startup that both   *)
(* read false.                                                             *)
C8_Witness ==
    /\ pc = "startup"
    /\ reads.missed
    /\ reads.game = "false"
    /\ ~ready
    /\ CountOp("startup_ret") = 0

(* C9: the slot holds a trigger only while main is inside the              *)
(* wait_for_action_result call that made it; at most one call is           *)
(* outstanding; between two send_action calls there is a returned          *)
(* wait_for_action_result call.                                            *)
C9_SingleOutstanding ==
    /\ slot.kind = "trigger" <=> pc = "wait"
    /\ pc = "wait" => slot = Trigger(k)
    /\ CountOp("result_call") =
           CountOp("result_ret") + (IF pc = "wait" THEN 1 ELSE 0)
    /\ \A i, j \in Places("send") :
           i < j => \E m \in Places("result_ret") : i < m /\ m < j

(* The wait that follows the second send is outstanding.                   *)
C9_Witness ==
    /\ pc = "wait"
    /\ k = 2
    /\ slot = Trigger(2)
    /\ CountOp("result_ret") = 1

(* C10: from the step that sends a command until the wait that follows it  *)
(* returns, the slot holds that wait's trigger, so a notification the      *)
(* channel delivers in a scheduler step of its own in that window reaches  *)
(* the trigger and sets the flag, and the flag stays set until the return. *)
C10_NoMissedWindow ==
    /\ [](CountOp("send") > CountOp("result_ret") =>
             (pc = "wait" /\ slot = Trigger(k)))
    /\ [][(Notify /\ CountOp("send") > CountOp("result_ret")) =>
              /\ lastTarget' = Trigger(k)
              /\ triggered'
              /\ hits' >= 1]_vars
    /\ [][(pc = "wait" /\ triggered /\ pc' = "wait") => triggered']_vars

(* A notification was delivered before the waiter's first poll resumed and *)
(* was caught.                                                             *)
C10_Witness ==
    /\ pc = "wait"
    /\ k = 2
    /\ slept = 0
    /\ hits = 1
    /\ triggered
    /\ lastTarget = Trigger(2)

----------------------------------------------------------------------------
(* C11: under a fair scheduler and a channel that delivers a result to     *)
(* every wait, if current_game eventually stays true and action_forced     *)
(* eventually stays true, main eventually calls stop() and is done; and    *)
(* main is done only after the whole script.                               *)
C11_Terminates ==
    /\ (<>[]ready /\ <>[]forced) => <>(pc = "done")
    /\ [](pc = "done" => ops = FullRun)

(* main has terminated after the whole script with both signals true.      *)
C11_Witness ==
    /\ pc = "done"
    /\ ops = FullRun
    /\ ready
    /\ forced

----------------------------------------------------------------------------
(* C12: main leaves wait_for_startup only in a step that reads             *)
(* current_game true and wait_for_actions_force only in a step that reads  *)
(* action_forced true, and nothing is sent before both; while the handler  *)
(* of the wait that follows a send has not been invoked, every step leaves *)
(* main in that wait: no further send, no stop(), and the slot keeps the   *)
(* waiter's trigger, not the saved handler.                                *)
C12_StaysSuspended ==
    /\ [][(pc = "startup" /\ ~ready) => (pc' = "startup" /\ ops' = ops)]_vars
    /\ [][(pc = "force" /\ ~forced) => (pc' = "force" /\ ops' = ops)]_vars
    /\ [](pc \in {"start", "startup", "force"} => CountOp("send") = 0)
    /\ [](reads.game # "true" => pc \in {"start", "startup"})
    /\ [](reads.forced # "true" => pc \in {"start", "startup", "force"})
    /\ [][(pc = "wait" /\ hits = 0 /\ hits' = 0) =>
              /\ pc' = "wait"
              /\ k' = k
              /\ ops' = ops
              /\ slot' = Trigger(k)
              /\ slot' # prev']_vars
    /\ [](pc = "wait" => (CountOp("stop") = 0 /\ Last(ops) = Op("result_call", ScriptIds[k])))

(* The wait that follows send id_3 has polled again without any invocation *)
(* of its handler: the slot still holds its trigger.                       *)
C12_Witness ==
    /\ pc = "wait"
    /\ k = 3
    /\ hits = 0
    /\ ~triggered
    /\ slept = dur
    /\ slot = Trigger(3)
    /\ SentIds = <<"id_1", "id_2", "id_3">>

----------------------------------------------------------------------------
Raised == CountOp("start_raised") + CountOp("send_raised")

(* C13: the step in which api.start or a send_action raises ends the run:  *)
(* it is taken outside every wait, with the slot holding the handler from  *)
(* before the run, and after it main does nothing more: no retry, no       *)
(* further send, no stop(), and the slot keeps that handler.               *)
C13_FailureEndsRun ==
    /\ [][(Appended("start_raised") \/ Appended("send_raised")) =>
              /\ pc # "wait"
              /\ slot = slot0
              /\ slot' = slot0
              /\ pc' = "crashed"]_vars
    /\ [](Raised > 0 <=> pc = "crashed")
    /\ [](pc = "crashed" =>
              /\ Raised = 1
              /\ Last(ops)[1] \in {"start_raised", "send_raised"}
              /\ CountOp("stop") = 0
              /\ CountOp("result_call") = CountOp("result_ret")
              /\ IsPrefix(SentIds, ScriptIds)
              /\ slot = slot0)
    /\ [][pc = "crashed" => UNCHANGED <<pc, k, ops, slot>>]_vars

(* send_action of id_5 has raised after four completed steps.              *)
C13_Witness ==
    /\ pc = "crashed"
    /\ Last(ops) = Op("send_raised", "id_5")
    /\ SentIds = <<"id_1", "id_2", "id_3", "id_4">>
    /\ slot0 = OrigHandler
    /\ slot = OrigHandler

----------------------------------------------------------------------------
(* Call b saved and installed after the handler of call a was invoked and  *)
(* before a restored: a is notified and still polling, b polls with a's    *)
(* trigger saved and its own trigger in the slot.                          *)
Overlapped(a, b) ==
    /\ a # b
    /\ waiters[a].pc = "polling"
    /\ waiters[a].triggered
    /\ waiters[b].pc = "polling"
    /\ waiters[b].prev = Trigger(a)
    /\ slot = Trigger(b)

(* Call b polls, unnotified, with its trigger neither in the slot nor      *)
(* saved by a call that could put it back.                                 *)
Orphaned(b) ==
    /\ waiters[b].pc = "polling"
    /\ ~waiters[b].triggered
    /\ slot # Trigger(b)
    /\ \A c \in Waiters :
           waiters[c].pc = "polling" => waiters[c].prev # Trigger(b)

(* C14: when two wait_for_action_result calls overlap as above, the        *)
(* restore of the first writes its saved handler over the second's         *)
(* trigger; if the second had not been notified by then, no later          *)
(* notification reaches it and it never returns; and if the second does    *)
(* return, it writes the first's trigger into the slot, not the handler    *)
(* from before the calls.                                                  *)
C14_OverlapUnsafe ==
    /\ [][\A a, b \in Waiters :
              (Overlapped(a, b) /\ waiters'[a].pc = "returned") =>
                  /\ slot' = waiters[a].prev
                  /\ slot' = slot0
                  /\ slot' # Trigger(b)
                  /\ ~waiters[b].triggered => Orphaned(b)']_vars
    /\ [][\A b \in Waiters :
              Orphaned(b) =>
                  /\ Orphaned(b)'
                  /\ waiters'[b].hits = waiters[b].hits]_vars
    /\ [][\A a, b \in Waiters :
              (/\ a # b
               /\ waiters[b].prev = Trigger(a)
               /\ waiters[b].pc = "polling"
               /\ waiters'[b].pc = "returned") =>
                  /\ slot' = Trigger(a)
                  /\ slot' # slot0]_vars

(* Call 1 has returned over call 2's trigger; results delivered since then *)
(* went to the handler from before the calls and call 2 still polls.       *)
C14_Witness ==
    /\ waiters[1].pc = "returned"
    /\ waiters[2].pc = "polling"
    /\ waiters[2].prev = Trigger(1)
    /\ ~waiters[2].triggered
    /\ waiters[2].unseen >= 2
    /\ slot = slot0
    /\ lastTarget = slot0

----------------------------------------------------------------------------
(* C15: during a wait, a notification of any command sent so far, the one  *)
(* just sent or an earlier one, sets the waiter's flag at its first        *)
(* invocation of the trigger, and the waiter's next resume then returns.   *)
C15_AnyNotificationEnds ==
    /\ [][(Notify /\ pc = "wait" /\ ~triggered) =>
              /\ triggered'
              /\ hits' = 1
              /\ trigBy' \in {ScriptIds[j] : j \in 1..k}]_vars
    /\ [][(MainWait /\ hits >= 1) =>
              /\ Appended("result_ret")
              /\ pc' = "delay"]_vars

(* The wait for id_3 has returned on a single notification, of id_1.       *)
C15_Witness ==
    /\ pc = "delay"
    /\ k = 3
    /\ hits = 1
    /\ trigBy = "id_1"
    /\ Last(ops) = Op("result_ret", "id_3")

----------------------------------------------------------------------------
(* C16: nothing but wait_for_action_result writes the slot, so whenever    *)
(* main is not inside it (start, the two initial waits, a send, a fixed    *)
(* delay, stop) the slot holds the handler from before the run; a          *)
(* notification delivered then reaches that handler, leaves the flag and   *)
(* the count alone, and the next wait starts with the flag clear.          *)
C16_OriginalOutsideWaits ==
    /\ [](pc # "wait" => slot = slot0)
    /\ [][(Notify /\ pc # "wait") =>
              /\ lastTarget' = slot0
              /\ UNCHANGED <<triggered, hits, trigBy, slot>>]_vars
    /\ [][MainSend => (prev' = slot0 /\ lastTarget' \in {lastTarget, slot0})]_vars
    /\ [][Appended("result_call") => (hits' = 0 /\ ~triggered')]_vars
    /\ [](pc = "wait" => (triggered <=> hits >= 1))

(* The wait for id_2 is polling with its flag clear although a             *)
(* notification reached the original handler after the wait for id_1.      *)
C16_Witness ==
    /\ pc = "wait"
    /\ k = 2
    /\ slept >= dur
    /\ hits = 0
    /\ ~triggered
    /\ slot0 = OrigHandler
    /\ lastTarget = OrigHandler
    /\ Last(ops) = Op("result_call", "id_2")

----------------------------------------------------------------------------
(* C17: a resume of wait_for_startup or of wait_for_actions_force only     *)
(* reads its signal: it leaves the slot, the saved handler, the flag and   *)
(* both signals as they were, and calls none of start, send_action, stop;  *)
(* through both waits the slot holds the original handler and the channel  *)
(* has seen one start and nothing else.                                    *)
C17_InitialWaitsReadOnly ==
    /\ [][(MainStartup \/ MainForce) =>
              /\ UNCHANGED <<slot, prev, triggered, hits, lastTarget>>
              /\ UNCHANGED <<ready, forced>>
              /\ CountOp("start")' = CountOp("start")
              /\ CountOp("send")' = CountOp("send")
              /\ CountOp("stop")' = CountOp("stop")
              /\ (pc = "startup" => reads'.game = (IF ready THEN "true" ELSE "false"))
              /\ (pc = "force" => reads'.forced = (IF forced THEN "true" ELSE "false"))]_vars
    /\ [](pc \in {"startup", "force"} =>
              /\ slot = slot0
              /\ CountOp("start") = 1
              /\ CountOp("send") = 0
              /\ CountOp("stop") = 0)

(* wait_for_startup has returned and wait_for_actions_force has polled and *)
(* read false, with an original handler still in the slot.                 *)
C17_Witness ==
    /\ pc = "force"
    /\ reads.forced = "false"
    /\ CountOp("startup_ret") = 1
    /\ slot0 = OrigHandler
    /\ slot = OrigHandler
    /\ slept >= dur

----------------------------------------------------------------------------
(* C18: while main is inside wait_for_action_result every notification     *)
(* ends at the trigger of that call, which sets the flag and nothing else: *)
(* the handler saved in prev is not the one invoked, and the slot and prev *)
(* are left as they are.                                                   *)
C18_SavedHandlerSilent ==
    /\ [][(Notify /\ pc = "wait") =>
              /\ lastTarget' = Trigger(k)
              /\ lastTarget' # prev
              /\ triggered'
              /\ UNCHANGED <<slot, prev, ops>>]_vars
    /\ [](pc = "wait" /\ hits >= 1 => (lastTarget = Trigger(k) /\ prev = slot0))

(* Two notifications have arrived during the wait for id_2 while an        *)
(* original handler is saved; both ended at the trigger.                   *)
C18_Witness ==
    /\ pc = "wait"
    /\ k = 2
    /\ hits >= 2
    /\ prev = OrigHandler
    /\ lastTarget = Trigger(2)

====
